---- MODULE Spec2Model ----
(***************************************************************************)
(* Model of the incremental document sync of dify_dataset_operate:         *)
(* sync_docs (dify_doc_sync.py) with the manifest file, the local doc      *)
(* directory and the remote dataset it talks to through                    *)
(* DifyDatasetDBClient.list_all_documents and                              *)
(* DifyDatasetDocClient.create_by_file / update_by_file.                   *)
(*                                                                         *)
(* Python values are modelled as strings: a document id is "R1", "R2", ...,*)
(* a digest is "h1", "h2", ..., None is the value None below and the empty *)
(* string is "".  A relative path is the tuple of its components, so that  *)
(* Path.name is its last component.                                        *)
(***************************************************************************)
EXTENDS Integers, Sequences, FiniteSets, TLC

\* ---------------------------------------------------------------- bounds
\* Number of sync_docs invocations in one behaviour.
MaxRuns == 3
\* Distinct file contents: a file's content is one of 1..MaxContent.
MaxContent == 2
\* Length of the remote listing before the first run.
MaxRemoteInit == 2
\* Files in the doc directory at any time.
MaxFiles == 2
\* Number of sync_docs invocations in one behaviour of SpecLoose.
MaxLooseRuns == 2
\* Changes made by others (a file written, a remote document deleted)
\* between two runs.
MaxEdits == 1

\* Documents in the remote collection that list_all_documents pages through.
MaxDocs == 4
\* Page sizes tried besides the default: limit is one of 1..MaxPageSize.
MaxPageSize == 3
\* Pages list_all_documents may request in one call of the model.
MaxPage == 6

\* ------------------------------------------------------- Python values
None == "None"
EmptyDict == <<>>

\* bool(x) of a str-or-None value: None and "" are falsy.
Truthy(x) == x \notin {None, ""}

\* The Python expression `a or b`.
Or(a, b) == IF Truthy(a) THEN a ELSE b

\* dict.get(key) with the default None.
Get(d, k) == IF k \in DOMAIN d THEN d[k] ELSE None

\* ------------------------------------------------------ the environment
\* The files the doc directory may hold: two of them share a base name.
AllPaths == {<<"a.txt">>, <<"d", "a.txt">>, <<"b.txt">>}

\* Path.name: the last component of the path.
Name(p) == p[Len(p)]

Names == {Name(p) : p \in AllPaths}

Contents == 1..MaxContent

\* Identifiers the remote service hands out, in order of creation.
IdTable == <<"R1", "R2", "R3", "R4", "R5", "R6", "R7", "R8", "R9", "R10",
             "R11", "R12", "R13", "R14", "R15", "R16">>

HexTable == <<"h1", "h2", "h3", "h4">>

\* _sha256: the hex digest of a file's content (distinct contents of the
\* model have distinct digests).
sha256(content) == HexTable[content]

\* ------------------------------------------------------ pure operators
\* _load_manifest: {} when the file does not exist, else its parsed content.
\* The manifest file is <<>> when absent and <<m>> when it holds mapping m.
LoadManifest(file) == IF file = <<>> THEN EmptyDict ELSE file[1]

\* _save_manifest: the file's content after write_text of the whole mapping.
SaveManifest(m) == <<m>>

\* list_all_documents as sync_docs uses it: the items of the remote listing,
\* in listing order.
ListAllDocuments(r) == [i \in 1..Len(r) |-> [name |-> r[i].name, id |-> r[i].id]]

\* The dict comprehension of sync_docs: items are inserted in listing order,
\* so a later item with the same name replaces an earlier one.
RECURSIVE NameToIdUpTo(_, _)
NameToIdUpTo(items, k) ==
    IF k = 0 THEN EmptyDict
    ELSE (items[k].name :> items[k].id) @@ NameToIdUpTo(items, k - 1)

\* Mutant of NameToId: the index is keyed by id instead of by name.
NameToIdKeyedById(items) ==
    [id \in {items[i].id : i \in 1..Len(items)} |->
        items[CHOOSE i \in 1..Len(items) : items[i].id = id].name]

NameToId(items) == NameToIdUpTo(items, Len(items))

\* previous = manifest.get(rel_path, {})
Previous(m, rel_path) == IF rel_path \in DOMAIN m THEN m[rel_path] ELSE EmptyDict

\* Mutant of IsUnchanged: the stored hash is read under the wrong key.
IsUnchangedWrongKey(previous, file_hash) == Get(previous, "hash") = file_hash

\* Mutant of IsUnchanged: a file is skipped only when an id is stored for it.
IsUnchangedNeedsId(previous, file_hash) ==
    Get(previous, "sha256") = file_hash /\ Truthy(Get(previous, "document_id"))

\* previous.get("sha256") == file_hash
IsUnchanged(previous, file_hash) == Get(previous, "sha256") = file_hash

\* Mutant of ResolveDocId: the name index is preferred to the manifest.
ResolveDocIdIndexFirst(previous, n2i, name) ==
    Or(Get(n2i, name), Get(previous, "document_id"))

\* Mutant of ResolveDocId: the name index is not consulted.
ResolveDocIdManifestOnly(previous, n2i, name) == Get(previous, "document_id")

\* doc_id = previous.get("document_id") or name_to_id.get(file_path.name)
ResolveDocId(previous, n2i, name) == Or(Get(previous, "document_id"), Get(n2i, name))

\* Mutant of DryRunLabel: the two labels are swapped.
DryRunLabelSwapped(doc_id) == IF Truthy(doc_id) THEN "create" ELSE "update"

\* The label a dry run logs: "update" if doc_id else "create".
DryRunLabel(doc_id) == IF Truthy(doc_id) THEN "update" ELSE "create"

\* Mutant of CreatedDocId: the response's id is not read.
CreatedDocIdIndexOnly(resp_id, n2i, name) == Get(n2i, name)

\* doc_id = (resp.get("document") or {}).get("id") or name_to_id.get(name)
CreatedDocId(resp_id, n2i, name) == Or(resp_id, Get(n2i, name))

\* The manifest entry sync_docs stores for a pushed file.
Entry(file_hash, doc_id) == [sha256 |-> file_hash, document_id |-> Or(doc_id, "")]

\* manifest[rel_path] = entry
Upsert(m, rel_path, entry) == (rel_path :> entry) @@ m

\* Mutant of DoSave: the manifest is saved in a dry run too.
AlwaysSave(dry) == TRUE

\* `if not dry_run:` in front of _save_manifest.
DoSave(dry) == ~dry

\* ------------------------------------------------------ the remote side
\* A remote document is [id, name, content]; content 0 is content that
\* came from no local file of the model.
RemoteHas(r, id) == \E i \in 1..Len(r) : r[i].id = id

\* update-by-file: the document's content and name are replaced.
RemoteUpdate(r, id, name, content) ==
    [i \in 1..Len(r) |->
        IF r[i].id = id THEN [id |-> id, name |-> name, content |-> content] ELSE r[i]]

\* create-by-file: a new document named after the file; where it shows up in
\* the listing is the service's choice.
RemoteCreate(r, id, name, content, front) ==
    LET doc == [id |-> id, name |-> name, content |-> content]
    IN IF front THEN <<doc>> \o r ELSE Append(r, doc)

RemoteDrop(r, i) == [j \in 1..(Len(r) - 1) |-> IF j < i THEN r[j] ELSE r[j + 1]]

\* ------------------------------------------------------------- state
VARIABLES
    disk,          \* the doc directory: rel_path -> content
    manifestFile,  \* the manifest file: <<>> (absent) or <<mapping>>
    remote,        \* the remote dataset: sequence of documents, listing order
    nextId,        \* index in IdTable of the next id the service hands out
    runs,          \* number of sync_docs invocations started
    limit,         \* number of invocations the behaviour makes (never changes)
    pc,            \* "idle", "list", "loop", "done", "aborted"
    dry_run,       \* the dry_run argument of the current run
    manifest,      \* the in-memory manifest of the current run
    name_to_id,    \* the name index of the current run
    todo,          \* files of _collect_files not yet iterated
    updated,       \* the updated counter
    skipped,       \* the skipped counter
    calls,         \* remote calls of the current run (history)
    decisions,     \* rel_path -> "skip" | "create" | "update" (history)
    writes,        \* _save_manifest calls of the current run (history)
    start,         \* what the current run started from (history)
    extern,        \* the remote was changed by others since the last run
    edits,         \* changes made by others since the last run
    prev,          \* summary of the previous run (history)
    lad            \* the frame of a list_all_documents call (paging model)

\* The variables of sync_docs and its environment.
syncVars == <<disk, manifestFile, remote, nextId, runs, limit, pc, dry_run, manifest,
              name_to_id, todo, updated, skipped, calls, decisions, writes,
              start, extern, edits, prev>>

vars == <<syncVars, lad>>

\* No list_all_documents call is being followed page by page.
NoCall == [pc |-> "none"]

NoRun == [status |-> "none"]

\* The listings the remote may hold before the first run: documents with
\* distinct ids, names among the base names (two may share a name).
InitRemotes(ids) ==
    UNION {{r \in [1..n -> [id : ids, name : Names, content : {0}]] :
               \A i \in 1..n : r[i].id \in {IdTable[i], None}}
           : n \in 0..MaxRemoteInit}

InitWith(ids, n) ==
    /\ disk \in UNION {[S -> {1}] : S \in {T \in SUBSET AllPaths : Cardinality(T) <= MaxFiles}}
    /\ manifestFile = <<>>
    /\ remote \in InitRemotes(ids)
    /\ nextId = Len(remote) + 1
    /\ runs = 0
    /\ limit = n
    /\ pc = "idle"
    /\ dry_run = FALSE
    /\ manifest = EmptyDict
    /\ name_to_id = EmptyDict
    /\ todo = {}
    /\ updated = 0
    /\ skipped = 0
    /\ calls = {}
    /\ decisions = EmptyDict
    /\ writes = 0
    /\ start = NoRun
    /\ extern = FALSE
    /\ edits = 0
    /\ prev = NoRun
    /\ lad = NoCall

\* Every listed document carries its id.
Init == InitWith({IdTable[i] : i \in 1..MaxRemoteInit}, MaxRuns)

\* A listing item may lack its id (item.get("id") is None).
InitLoose == InitWith({IdTable[i] : i \in 1..MaxRemoteInit} \cup {None}, MaxLooseRuns)

Idle == pc \in {"idle", "done", "aborted"}

\* ------------------------------------------------------------ actions
\* sync_docs up to the manifest load (clients built, manifest read).
StartRun ==
    /\ Idle
    /\ runs < limit
    /\ \E d \in BOOLEAN : dry_run' = d
    /\ runs' = runs + 1
    /\ manifest' = LoadManifest(manifestFile)
    /\ prev' = IF pc = "idle" THEN NoRun
               ELSE [status |-> pc, dry |-> dry_run, start |-> start,
                     decisions |-> decisions, calls |-> calls]
    /\ start' = [status |-> "run", disk |-> disk, manifestFile |-> manifestFile,
                 remote |-> remote, extern |-> extern]
    /\ extern' = FALSE
    /\ edits' = 0
    /\ name_to_id' = EmptyDict
    /\ todo' = {}
    /\ updated' = 0
    /\ skipped' = 0
    /\ calls' = {}
    /\ decisions' = EmptyDict
    /\ writes' = 0
    /\ pc' = "list"
    /\ UNCHANGED <<disk, manifestFile, remote, nextId, limit, lad>>

Call(op, path, id, ok, resp) ==
    [op |-> op, path |-> path, id |-> id, ok |-> ok, resp |-> resp]

\* name_to_id = {... for item in db_client.list_all_documents()}, then the
\* directory is scanned.
ListOk ==
    /\ pc = "list"
    /\ name_to_id' = NameToId(ListAllDocuments(remote))
    /\ todo' = DOMAIN disk
    /\ pc' = "loop"
    /\ UNCHANGED <<disk, manifestFile, remote, nextId, runs, limit, dry_run, manifest,
                   updated, skipped, calls, decisions, writes, start, extern, edits, prev, lad>>

\* list_documents raised (raise_for_status or a network error).
ListFail ==
    /\ pc = "list"
    /\ calls' = calls \cup {Call("list", <<>>, None, FALSE, None)}
    /\ pc' = "aborted"
    /\ UNCHANGED <<disk, manifestFile, remote, nextId, runs, limit, dry_run, manifest,
                   name_to_id, todo, updated, skipped, decisions, writes, start,
                   extern, edits, prev, lad>>

\* One iteration that ends at `continue` after "skip unchanged".
ProcessSkip ==
    /\ pc = "loop"
    /\ \E p \in todo :
        /\ IsUnchanged(Previous(manifest, p), sha256(disk[p]))
        /\ skipped' = skipped + 1
        /\ decisions' = (p :> "skip") @@ decisions
        /\ todo' = todo \ {p}
    /\ UNCHANGED <<disk, manifestFile, remote, nextId, runs, limit, pc, dry_run, manifest,
                   name_to_id, updated, calls, writes, start, extern, edits, prev, lad>>

\* One iteration of a dry run that ends at `continue` after logging.
ProcessDry ==
    /\ pc = "loop"
    /\ dry_run
    /\ \E p \in todo :
        LET previous == Previous(manifest, p)
            doc_id == ResolveDocId(previous, name_to_id, Name(p))
        IN /\ ~IsUnchanged(previous, sha256(disk[p]))
           /\ decisions' = (p :> DryRunLabel(doc_id)) @@ decisions
           /\ todo' = todo \ {p}
    /\ UNCHANGED <<disk, manifestFile, remote, nextId, runs, limit, pc, dry_run, manifest,
                   name_to_id, updated, skipped, calls, writes, start, extern, edits, prev, lad>>

\* One iteration that updates the resolved document and upserts the entry.
ProcessUpdateOk ==
    /\ pc = "loop"
    /\ ~dry_run
    /\ \E p \in todo :
        LET file_hash == sha256(disk[p])
            previous == Previous(manifest, p)
            doc_id == ResolveDocId(previous, name_to_id, Name(p))
        IN /\ ~IsUnchanged(previous, file_hash)
           /\ Truthy(doc_id)
           /\ RemoteHas(remote, doc_id)
           /\ remote' = RemoteUpdate(remote, doc_id, Name(p), disk[p])
           /\ calls' = calls \cup {Call("update", p, doc_id, TRUE, None)}
           /\ manifest' = Upsert(manifest, p, Entry(file_hash, doc_id))
           /\ decisions' = (p :> "update") @@ decisions
           /\ todo' = todo \ {p}
    /\ updated' = updated + 1
    /\ UNCHANGED <<disk, manifestFile, nextId, runs, limit, pc, dry_run, name_to_id,
                   skipped, writes, start, extern, edits, prev, lad>>

\* Mutant of ProcessUpdateFail: the exception is caught and the loop goes on
\* with the next file.
ProcessUpdateFailContinues ==
    /\ pc = "loop"
    /\ ~dry_run
    /\ \E p \in todo :
        LET previous == Previous(manifest, p)
            doc_id == ResolveDocId(previous, name_to_id, Name(p))
        IN /\ ~IsUnchanged(previous, sha256(disk[p]))
           /\ Truthy(doc_id)
           /\ calls' = calls \cup {Call("update", p, doc_id, FALSE, None)}
           /\ todo' = todo \ {p}
    /\ UNCHANGED <<disk, manifestFile, remote, nextId, runs, limit, pc, dry_run,
                   manifest, name_to_id, updated, skipped, decisions, writes,
                   start, extern, edits, prev, lad>>

\* update_by_file raised: the exception leaves sync_docs.
ProcessUpdateFail ==
    /\ pc = "loop"
    /\ ~dry_run
    /\ \E p \in todo :
        LET previous == Previous(manifest, p)
            doc_id == ResolveDocId(previous, name_to_id, Name(p))
        IN /\ ~IsUnchanged(previous, sha256(disk[p]))
           /\ Truthy(doc_id)
           /\ calls' = calls \cup {Call("update", p, doc_id, FALSE, None)}
    /\ pc' = "aborted"
    /\ UNCHANGED <<disk, manifestFile, remote, nextId, runs, limit, dry_run, manifest,
                   name_to_id, todo, updated, skipped, decisions, writes, start,
                   extern, edits, prev, lad>>

\* One iteration that creates a document and upserts the entry; the response
\* carries the new document's id or does not.
ProcessCreateOk ==
    /\ pc = "loop"
    /\ ~dry_run
    /\ nextId <= Len(IdTable)
    /\ \E p \in todo, hasId \in BOOLEAN, front \in BOOLEAN :
        LET file_hash == sha256(disk[p])
            previous == Previous(manifest, p)
            doc_id == ResolveDocId(previous, name_to_id, Name(p))
            new_id == IdTable[nextId]
            resp_id == IF hasId THEN new_id ELSE None
            created == CreatedDocId(resp_id, name_to_id, Name(p))
        IN /\ ~IsUnchanged(previous, file_hash)
           /\ ~Truthy(doc_id)
           /\ remote' = RemoteCreate(remote, new_id, Name(p), disk[p], front)
           /\ calls' = calls \cup {Call("create", p, None, TRUE, resp_id)}
           /\ manifest' = Upsert(manifest, p, Entry(file_hash, created))
           /\ decisions' = (p :> "create") @@ decisions
           /\ todo' = todo \ {p}
    /\ nextId' = nextId + 1
    /\ updated' = updated + 1
    /\ UNCHANGED <<disk, manifestFile, runs, limit, pc, dry_run, name_to_id, skipped,
                   writes, start, extern, edits, prev, lad>>

\* create_by_file raised (in _get_dataset_doc_form or in the upload).
ProcessCreateFail ==
    /\ pc = "loop"
    /\ ~dry_run
    /\ \E p \in todo :
        LET previous == Previous(manifest, p)
            doc_id == ResolveDocId(previous, name_to_id, Name(p))
        IN /\ ~IsUnchanged(previous, sha256(disk[p]))
           /\ ~Truthy(doc_id)
           /\ calls' = calls \cup {Call("create", p, None, FALSE, None)}
    /\ pc' = "aborted"
    /\ UNCHANGED <<disk, manifestFile, remote, nextId, runs, limit, dry_run, manifest,
                   name_to_id, todo, updated, skipped, decisions, writes, start,
                   extern, edits, prev, lad>>

\* Mutant of Finish: _save_manifest sits inside the loop and runs after
\* every file.
FinishSavesInLoop ==
    /\ pc = "loop"
    /\ writes < Cardinality(DOMAIN disk) + 1
    /\ IF DoSave(dry_run)
       THEN /\ manifestFile' = SaveManifest(manifest)
            /\ writes' = writes + 1
       ELSE UNCHANGED <<manifestFile, writes>>
    /\ pc' = IF todo = {} THEN "done" ELSE "loop"
    /\ UNCHANGED <<disk, remote, nextId, runs, limit, dry_run, manifest, name_to_id,
                   todo, updated, skipped, calls, decisions, start, extern, edits,
                   prev, lad>>

\* The loop is over: _save_manifest unless dry_run, then the final log line.
Finish ==
    /\ pc = "loop"
    /\ todo = {}
    /\ IF DoSave(dry_run)
       THEN /\ manifestFile' = SaveManifest(manifest)
            /\ writes' = writes + 1
       ELSE UNCHANGED <<manifestFile, writes>>
    /\ pc' = "done"
    /\ UNCHANGED <<disk, remote, nextId, runs, limit, dry_run, manifest, name_to_id,
                   todo, updated, skipped, calls, decisions, start, extern, edits,
                   prev, lad>>

\* Between two runs a file of the directory is written (new or changed).
WriteFile ==
    /\ pc \in {"done", "aborted"}
    /\ runs < limit
    /\ \E p \in AllPaths, c \in Contents :
        /\ ~(p \in DOMAIN disk /\ disk[p] = c)
        /\ Cardinality(DOMAIN disk \cup {p}) <= MaxFiles
        /\ disk' = (p :> c) @@ disk
    /\ edits < MaxEdits
    /\ edits' = edits + 1
    /\ UNCHANGED <<manifestFile, remote, nextId, runs, limit, pc, dry_run, manifest,
                   name_to_id, todo, updated, skipped, calls, decisions, writes,
                   start, extern, prev, lad>>

\* Between two runs somebody else deletes a document of the dataset.
RemoteDelete ==
    /\ pc \in {"done", "aborted"}
    /\ runs < limit
    /\ \E i \in 1..Len(remote) : remote' = RemoteDrop(remote, i)
    /\ extern' = TRUE
    /\ edits < MaxEdits
    /\ edits' = edits + 1
    /\ UNCHANGED <<disk, manifestFile, nextId, runs, limit, pc, dry_run, manifest,
                   name_to_id, todo, updated, skipped, calls, decisions, writes,
                   start, prev, lad>>

Next ==
    \/ StartRun
    \/ ListOk
    \/ ListFail
    \/ ProcessSkip
    \/ ProcessDry
    \/ ProcessUpdateOk
    \/ ProcessUpdateFail
    \/ ProcessCreateOk
    \/ ProcessCreateFail
    \/ Finish
    \/ WriteFile
    \/ RemoteDelete

Spec == Init /\ [][Next]_vars

\* The same program against a service whose listing may lack ids.
SpecLoose == InitLoose /\ [][Next]_vars

\* ------------------------------------------- list_all_documents, page by page

\* The default of list_all_documents's keyword argument limit.
DefaultLimit == 100

\* The page sizes a caller passes: small ones, and the default.
PageSizes == (1..MaxPageSize) \cup {DefaultLimit}

\* How the remote answers GET /datasets/{id}/documents?page=..&limit=..:
\* "consistent" serves the collection in consecutive slices of `limit` items,
\* "flaky" does the same but a request may end in an HTTP error,
\* "repeat" ignores the page number and serves the first slice every time.
ServerModes == {"consistent", "flaky", "repeat"}

\* JSON values of the "data" member of a response.
JsonList(items) == [type |-> "list", items |-> items]

JsonNull == [type |-> "null"]

\* Slice number `page` (from 1) of the listing, `page_size` items a slice.
PageOf(r, page, page_size) ==
    SubSeq(ListAllDocuments(r), (page - 1) * page_size + 1,
           IF page * page_size < Len(r) THEN page * page_size ELSE Len(r))

\* The bodies list_documents(page, limit) may return: the slice under "data";
\* an empty slice may also come as "data": null, or as a body without "data"
\* (_request returns {} for an empty body).
Responses(mode, r, page, page_size) ==
    LET items == IF mode = "repeat" THEN PageOf(r, 1, page_size)
                                    ELSE PageOf(r, page, page_size)
    IN  {[data |-> JsonList(items)]}
          \cup (IF items = <<>> THEN {[data |-> JsonNull], EmptyDict} ELSE {})

\* items = resp.get("data", []) or []
Items(resp) ==
    LET d == IF "data" \in DOMAIN resp THEN resp["data"] ELSE JsonList(<<>>)
    IN  IF d.type = "list" THEN d.items ELSE <<>>

ShortPageOrFull(items, page_size) == Len(items) <= page_size

\* if len(items) < limit: break
ShortPage(items, page_size) == Len(items) < page_size

\* The collections list_all_documents is run against: 0..MaxDocs documents
\* with distinct ids.
PagingRemotes ==
    UNION {{r \in [1..n -> [id : {IdTable[i] : i \in 1..MaxDocs}, name : Names, content : {0}]] :
               \A i \in 1..n : r[i].id = IdTable[i]}
           : n \in 0..MaxDocs}

\* sync_docs is not running; only list_all_documents is followed.
InitPaging ==
    /\ disk = <<>>
    /\ manifestFile = <<>>
    /\ remote \in PagingRemotes
    /\ nextId = Len(remote) + 1
    /\ runs = 0
    /\ limit = 0
    /\ pc = "idle"
    /\ dry_run = FALSE
    /\ manifest = EmptyDict
    /\ name_to_id = EmptyDict
    /\ todo = {}
    /\ updated = 0
    /\ skipped = 0
    /\ calls = {}
    /\ decisions = EmptyDict
    /\ writes = 0
    /\ start = NoRun
    /\ extern = FALSE
    /\ edits = 0
    /\ prev = NoRun
    /\ lad = NoCall

\* list_all_documents(limit=page_size) is entered: documents = [], page = 1.
\* requests and sizes record the (page, limit) of every list_documents call
\* and the number of items each one brought back.
ListAllStart ==
    /\ lad.pc \in {"none", "returned", "raised"}
    /\ \E page_size \in PageSizes, mode \in ServerModes :
         lad' = [pc |-> "loop", limit |-> page_size, mode |-> mode, page |-> 1,
                 documents |-> <<>>, requests |-> <<>>, sizes |-> <<>>]
    /\ UNCHANGED syncVars

\* One turn of the while loop whose request is answered.
ListPageOk ==
    /\ lad.pc = "loop"
    /\ lad.page <= MaxPage
    /\ \E resp \in Responses(lad.mode, remote, lad.page, lad.limit) :
         LET items == Items(resp)
         IN  lad' = [lad EXCEPT
                       !.requests = Append(@, [page |-> lad.page, limit |-> lad.limit]),
                       !.sizes = Append(@, Len(items)),
                       !.documents = @ \o items,
                       !.pc = IF ShortPage(items, lad.limit) THEN "returned" ELSE "loop",
                       !.page = IF ShortPage(items, lad.limit) THEN @ ELSE @ + 1]
    /\ UNCHANGED syncVars

\* One turn of the while loop whose request ends in an HTTP error:
\* raise_for_status raises and the exception leaves list_all_documents.
ListPageFail ==
    /\ lad.pc = "loop"
    /\ lad.page <= MaxPage
    /\ lad.mode = "flaky"
    /\ lad' = [lad EXCEPT
                 !.requests = Append(@, [page |-> lad.page, limit |-> lad.limit]),
                 !.pc = "raised"]
    /\ UNCHANGED syncVars

NextPaging ==
    \/ ListAllStart
    \/ ListPageOk
    \/ ListPageFail

SpecPaging == InitPaging /\ [][NextPaging]_vars

\* The loop is straight-line code and every request carries timeout=30, so a
\* turn of the loop that can be taken is taken.
SpecPagingFair == SpecPaging /\ WF_vars(ListPageOk \/ ListPageFail)

\* ---------------------------------------------- vocabulary of the claims
\* The current run's inputs, as sync_docs found them.
InRun == start.status = "run"

StartManifest == IF start.manifestFile = <<>> THEN EmptyDict ELSE start.manifestFile[1]

FileCalls == {c \in calls : c.op \in {"create", "update"}}

PrevFileCalls == {c \in prev.calls : c.op \in {"create", "update"}}

HasFailed == \E c \in calls : ~c.ok

Skips == {p \in DOMAIN decisions : decisions[p] = "skip"}

Pushed == {p \in DOMAIN decisions : decisions[p] # "skip"}

\* Indices of the documents of a listing that carry a given name.
Listed(listing, name) == {i \in 1..Len(listing) : listing[i].name = name}

\* The id of the last document of a listing with a given name, None if none.
LastIdFor(listing, name) ==
    LET I == Listed(listing, name)
    IN IF I = {} THEN None
       ELSE listing[CHOOSE i \in I : \A j \in I : j <= i].id

\* The id the spec names as a file's target: the manifest entry's id when
\* present and non-empty, else the name index's id for the base name.
Target(p) ==
    IF p \in DOMAIN StartManifest /\ StartManifest[p].document_id # ""
    THEN StartManifest[p].document_id
    ELSE LastIdFor(start.remote, Name(p))

\* The previous run and this one started from the same files, manifest file
\* and remote listing.
SameInputs ==
    /\ prev.start.disk = start.disk
    /\ prev.start.manifestFile = start.manifestFile
    /\ prev.start.remote = start.remote

\* ------------------------------------------------------------- claims
\* C1: in a dry or non-dry run, the iteration over a file whose manifest
\* entry exists with the stored hash equal to the fresh hash makes no remote
\* call, adds exactly one to skipped, leaves updated alone and leaves the
\* in-memory manifest unchanged.
C1_SkipUnchanged ==
    [][\A p \in todo :
        (/\ pc = "loop"
         /\ todo' = todo \ {p}
         /\ p \in DOMAIN manifest
         /\ manifest[p].sha256 = sha256(disk[p]))
        => /\ calls' = calls
           /\ remote' = remote
           /\ skipped' = skipped + 1
           /\ updated' = updated
           /\ manifest' = manifest
           /\ manifestFile' = manifestFile]_vars

\* C1 witness: a run that ended with one unchanged file skipped and nothing
\* pushed.
C1_Witness ==
    /\ pc = "done"
    /\ InRun
    /\ skipped = 1
    /\ updated = 0
    /\ calls = {}
    /\ \E p \in DOMAIN StartManifest : p \in Skips

\* C2: when the previous run was a completed non-dry run, a non-dry run makes
\* no create or update call for any file whose content is what it was in the
\* previous run, whatever the listing returns and whatever id was stored, and
\* a completed run has counted each of them as skipped.
C2_SecondRunSkips ==
    (InRun /\ ~dry_run /\ prev.status = "done" /\ ~prev.dry) =>
        /\ \A p \in DOMAIN start.disk :
            (p \in DOMAIN prev.start.disk /\ prev.start.disk[p] = start.disk[p]) =>
                /\ \A c \in calls : c.path # p
                /\ p \in DOMAIN decisions => decisions[p] = "skip"
                /\ pc = "done" => p \in Skips
        /\ skipped = Cardinality(Skips)

\* C2 witness: the second of two completed non-dry runs skipped a file for
\* which the first run stored an empty document id, while the listing had
\* changed in between.
C2_Witness ==
    /\ InRun /\ ~dry_run /\ pc = "done"
    /\ prev.status = "done" /\ ~prev.dry
    /\ start.extern
    /\ \E p \in Skips :
        /\ p \in DOMAIN prev.start.disk
        /\ StartManifest[p].document_id = ""
        /\ \E c \in prev.calls : c.path = p /\ c.op = "create"

\* The general rule of C3: every create or update call of a run is an update
\* against the file's target id when that id is non-empty, and a create
\* otherwise.
C3_Rule ==
    InRun =>
        \A c \in FileCalls :
            IF Truthy(Target(c.path))
            THEN c.op = "update" /\ c.id = Target(c.path)
            ELSE c.op = "create"

\* C3 (amended): the general rule, and a file with no manifest entry whose
\* base name is in the listing is updated against the id of the last listed
\* document of that name, never created.
C3_TargetId ==
    /\ C3_Rule
    /\ InRun =>
        \A c \in FileCalls :
            (c.path \notin DOMAIN StartManifest /\ Listed(start.remote, Name(c.path)) # {})
                => c.op = "update" /\ c.id = LastIdFor(start.remote, Name(c.path))

\* C3 as stated: the general rule, and a file with no manifest entry whose
\* base name appears in the listing with id R1 is updated against R1.
C3_Original ==
    /\ C3_Rule
    /\ InRun =>
        \A c \in FileCalls :
            \A i \in Listed(start.remote, Name(c.path)) :
                c.path \notin DOMAIN StartManifest
                    => c.op = "update" /\ c.id = start.remote[i].id

\* C3 witness: a file without a manifest entry was updated while the listing
\* held two documents of its base name.
C3_Witness ==
    /\ InRun
    /\ \E c \in FileCalls :
        /\ c.ok /\ c.op = "update"
        /\ c.path \notin DOMAIN StartManifest
        /\ Cardinality(Listed(start.remote, Name(c.path))) = 2

\* C4: a dry run makes no create or update call, never changes the in-memory
\* manifest and never writes the manifest file; manifest file and remote
\* documents stay what they were when the run started.
C4_DryRunFrame ==
    (InRun /\ dry_run /\ pc \in {"list", "loop", "done"} /\ edits = 0) =>
        /\ FileCalls = {}
        /\ writes = 0
        /\ manifest = StartManifest
        /\ manifestFile = start.manifestFile
        /\ remote = start.remote

\* C4 witness: a completed dry run that decided a create and an update, with
\* a manifest on file.
C4_Witness ==
    /\ InRun /\ dry_run /\ pc = "done" /\ edits = 0
    /\ start.manifestFile # <<>>
    /\ \E p, q \in Pushed : decisions[p] = "create" /\ decisions[q] = "update"

\* C5: a non-dry run started from the files, manifest and listing of a
\* completed dry run decides for every file what the dry run decided.
C5_DryRunSameDecisions ==
    (InRun /\ ~dry_run /\ prev.status = "done" /\ prev.dry /\ SameInputs) =>
        /\ \A p \in DOMAIN decisions : decisions[p] = prev.decisions[p]
        /\ \A c \in FileCalls : c.op = prev.decisions[c.path]

\* C5 witness: such a pair of runs over two files that share a base name,
\* one of which was created while the other was decided in the same run.
C5_Witness ==
    /\ InRun /\ ~dry_run /\ pc = "done"
    /\ prev.status = "done" /\ prev.dry /\ SameInputs
    /\ \E p, q \in Pushed :
        /\ p # q
        /\ Name(p) = Name(q)
        /\ decisions[p] = "create"

\* C6: once a remote call of a non-dry run has failed the run is over: it is
\* the only failed call, its file and every file not yet iterated stay
\* unprocessed, _save_manifest has not run and the manifest file holds its
\* pre-run content; from then on the run makes no call, processes no file
\* and writes nothing.
C6_FailureAborts ==
    /\ [](InRun /\ ~dry_run /\ HasFailed =>
            /\ pc = "aborted"
            /\ Cardinality({c \in calls : ~c.ok}) = 1
            /\ \A c \in FileCalls : c.ok <=> c.path \notin todo
            /\ DOMAIN decisions \cap todo = {}
            /\ updated + skipped = Cardinality(DOMAIN decisions)
            /\ writes = 0
            /\ manifestFile = start.manifestFile)
    /\ [][(HasFailed /\ runs' = runs) =>
            UNCHANGED <<calls, todo, decisions, manifest, manifestFile, writes,
                        updated, skipped, pc>>]_vars

\* C6 witness: a non-dry run aborted by a failed call after an earlier file
\* of the run was created remotely, with a file still not iterated or failed.
C6_Witness ==
    /\ InRun /\ ~dry_run /\ pc = "aborted"
    /\ \E c, f \in FileCalls : c.ok /\ c.op = "create" /\ ~f.ok
    /\ remote # start.remote
    /\ manifest # StartManifest

\* C7: a completed non-dry run has written the manifest file exactly once,
\* with the whole in-memory manifest (the prior entries, replaced or extended
\* by this run's upserts); no write has happened while the run was listing,
\* iterating or aborted, and the write is the step that ends the loop after
\* the last file.
C7_SavedOnceAtEnd ==
    /\ [](InRun /\ ~dry_run =>
            /\ pc = "done" =>
                /\ writes = 1
                /\ manifestFile = <<manifest>>
                /\ DOMAIN manifest = DOMAIN StartManifest \cup Pushed
                /\ \A p \in DOMAIN StartManifest \ Pushed : manifest[p] = StartManifest[p]
                /\ \A p \in Pushed : manifest[p].sha256 = sha256(start.disk[p])
            /\ pc \in {"list", "loop", "aborted"} =>
                writes = 0 /\ manifestFile = start.manifestFile)
    /\ [][(manifestFile' # manifestFile \/ writes' > writes) =>
            /\ pc = "loop" /\ todo = {} /\ pc' = "done"
            /\ writes' = writes + 1
            /\ manifestFile' = <<manifest>>
            /\ UNCHANGED <<manifest, calls, remote>>]_vars

\* C7 witness: a completed non-dry run that pushed one file and kept the
\* prior entry of another wrote the manifest once.
C7_Witness ==
    /\ InRun /\ ~dry_run /\ pc = "done"
    /\ writes = 1
    /\ Pushed # {}
    /\ DOMAIN StartManifest \ Pushed # {}
    /\ manifestFile # start.manifestFile

PushedId(c) == IF c.op = "update" THEN c.id ELSE IF c.resp = None THEN "" ELSE c.resp

\* C9: after a completed non-dry run every file that was not skipped has a
\* manifest entry with its fresh hash and the id used for its update or
\* returned by its create; updated counts those files and updated + skipped
\* counts the files scanned.  With no manifest, an empty listing and the
\* single file a.txt: one create call, one entry, updated = 1, skipped = 0.
C9_ManifestAfterRun ==
    (InRun /\ ~dry_run /\ pc = "done") =>
        /\ \A p \in Pushed :
            /\ p \in DOMAIN manifestFile[1]
            /\ manifestFile[1][p].sha256 = sha256(start.disk[p])
            /\ \E c \in FileCalls :
                /\ c.path = p /\ c.ok
                /\ manifestFile[1][p].document_id = PushedId(c)
        /\ updated = Cardinality(Pushed)
        /\ updated + skipped = Cardinality(DOMAIN start.disk)
        /\ (/\ StartManifest = EmptyDict
            /\ start.remote = <<>>
            /\ DOMAIN start.disk = {<<"a.txt">>})
           => /\ Cardinality(FileCalls) = 1
              /\ \A c \in FileCalls : c.op = "create" /\ c.path = <<"a.txt">>
              /\ DOMAIN manifestFile[1] = {<<"a.txt">>}
              /\ updated = 1
              /\ skipped = 0

\* C9 witness: a completed non-dry run that skipped one file and created
\* another whose returned id is in the saved manifest.
C9_Witness ==
    /\ InRun /\ ~dry_run /\ pc = "done"
    /\ skipped = 1
    /\ \E c \in FileCalls :
        /\ c.op = "create" /\ c.resp # None
        /\ manifestFile[1][c.path].document_id = c.resp

\* The previous run was a non-dry run that aborted, and this run starts from
\* the same files and from the remote as that run left it.
AfterAbortedRun ==
    /\ InRun
    /\ prev.status = "aborted"
    /\ ~prev.dry
    /\ ~start.extern
    /\ start.disk = prev.start.disk

\* C10: in the run after an aborted non-dry run, every file whose call had
\* succeeded in the aborted run is pushed again, never skipped and never
\* created: it is decided as an update, and each call made for it is an
\* update of a document that exists remotely.
C10_RepushIsUpdate ==
    AfterAbortedRun =>
        \A c \in PrevFileCalls :
            c.ok =>
                /\ c.path \in DOMAIN decisions => decisions[c.path] = "update"
                /\ pc = "done" => c.path \in DOMAIN decisions
                /\ \A d \in FileCalls :
                    d.path = c.path =>
                        /\ d.op = "update"
                        /\ RemoteHas(start.remote, d.id)

\* C10 witness: the run after an aborted run updated a file that the aborted
\* run had created.
C10_Witness ==
    /\ AfterAbortedRun /\ ~dry_run
    /\ \E c \in PrevFileCalls, d \in FileCalls :
        /\ c.ok /\ c.op = "create"
        /\ d.ok /\ d.op = "update" /\ d.path = c.path

\* ---------------------------------------------------------------- C11

Served == lad.pc = "loop" /\ lad.mode = "consistent"

Returned == lad.pc = "returned"

\* The requests made so far ask for pages 1, 2, 3, ... with the call's limit.
PagesInOrder ==
    \A i \in 1..Len(lad.requests) :
        lad.requests[i] = [page |-> i, limit |-> lad.limit]

\* Every answered page but the last was full; the call has returned exactly
\* when the last answered page was short.
StopsAtFirstShortPage ==
    /\ \A i \in 1..(Len(lad.sizes) - 1) : lad.sizes[i] = lad.limit
    /\ Returned <=> (Len(lad.sizes) > 0 /\ lad.sizes[Len(lad.sizes)] < lad.limit)

\* Against a consistent server the result is the whole listing, each document
\* once and in listing order, after N div limit + 1 requests: the last one is
\* an extra request answered by an empty page when N is a positive multiple
\* of limit.
ReturnsAll ==
    (Returned /\ lad.mode = "consistent") =>
        /\ lad.documents = ListAllDocuments(remote)
        /\ Len(lad.requests) = (Len(remote) \div lad.limit) + 1
        /\ (Len(remote) > 0 /\ Len(remote) % lad.limit = 0)
              => lad.sizes[Len(lad.sizes)] = 0

C11_State ==
    lad.pc \in {"loop", "returned"} =>
        /\ PagesInOrder
        /\ StopsAtFirstShortPage
        /\ ReturnsAll

\* C11: list_all_documents requests pages 1, 2, 3, ... in order with one page
\* size and stops at the first page with fewer items than the page size;
\* against a collection of N documents served in consistent pages it returns,
\* and what it returns is all N documents once each in listing order (with one
\* extra request, answered by an empty page, when N is a positive multiple of
\* the page size); it has not returned as long as every page so far was full.
C11_Paging == [](C11_State) /\ (Served ~> Returned)

\* A consistent server, N a positive multiple of the page size and more than
\* one page: the call has returned after the extra, empty page.
C11_Witness ==
    /\ Returned
    /\ lad.mode = "consistent"
    /\ Len(remote) = 2 * lad.limit
    /\ Len(lad.requests) = 3
    /\ lad.sizes = <<lad.limit, lad.limit, 0>>

\* ---------------------------------------------------------------- C12

\* A non-dry run that began with an empty manifest has ended and saved.
SavedFromEmpty ==
    /\ InRun /\ ~dry_run /\ pc = "done"
    /\ StartManifest = EmptyDict

\* C12: in the manifest saved by a successful non-dry run that started from
\* an empty manifest, two entries with different relative paths never hold
\* the same non-empty document id: no two local files are pushed into the
\* same remote document.
C12_OneDocumentPerFile ==
    SavedFromEmpty =>
        \A p, q \in DOMAIN manifestFile[1] :
            (/\ p # q
             /\ Truthy(manifestFile[1][p].document_id))
            => manifestFile[1][p].document_id # manifestFile[1][q].document_id

====
